---------------------------- MODULE Spec2Model ----------------------------
(***************************************************************************)
(* A model of go-sri (src/sri.go): the Subresource Integrity checker.      *)
(*                                                                         *)
(* A Go string is a sequence of one-character strings, a []byte a sequence *)
(* of numbers in 0..255.  A hash.Hash is a record [alg, data]: the         *)
(* algorithm it was made by and the bytes it has consumed; its digest is a *)
(* function of the two.  The digest functions stand for crypto/sha256 and  *)
(* friends with their widths scaled down (32, 48, 64, 20 bytes become      *)
(* 2, 3, 1, 5: the same remainders modulo 3, so base64 pads the same way). *)
(* A *hash.Hash reference is the name it is registered under in c.hashes.  *)
(***************************************************************************)
EXTENDS Integers, Sequences, FiniteSets, TLC

\* ------------------------------------------------------------------ bounds
\* Most tokens in a descriptor string.
MaxTokens == 3
\* Most bytes written to a Checker in total.
MaxData == 2

\* ------------------------------------------------------------- Go strings
\* The nil error.
Nil == [kind |-> "nil"]

\* unicode.IsSpace, on the characters of the model.
IsSpace(ch) == ch \in {" ", "\t", "\n"}

RECURSIVE FieldsFrom(_, _, _, _)
FieldsFrom(s, i, cur, acc) ==
  IF i > Len(s)
  THEN IF cur = <<>> THEN acc ELSE Append(acc, cur)
  ELSE IF IsSpace(s[i])
       THEN FieldsFrom(s, i + 1, <<>>, IF cur = <<>> THEN acc ELSE Append(acc, cur))
       ELSE FieldsFrom(s, i + 1, Append(cur, s[i]), acc)

\* strings.Fields: the maximal runs of non-space characters, in order.
Fields(s) == FieldsFrom(s, 1, <<>>, <<>>)

\* strings.IndexRune: the 0-based index of the first ch in s, or -1.
IndexRune(s, ch) ==
  IF \E i \in 1..Len(s) : s[i] = ch
  THEN (CHOOSE i \in 1..Len(s) : s[i] = ch /\ \A j \in 1..(i - 1) : s[j] # ch) - 1
  ELSE -1

RECURSIVE Join(_, _)
\* strings.Join
Join(elems, sep) ==
  IF elems = <<>> THEN <<>>
  ELSE IF Len(elems) = 1 THEN elems[1]
  ELSE elems[1] \o sep \o Join(Tail(elems), sep)

\* ------------------------------------------------------ encoding/base64
\* base64.StdEncoding's alphabet; the padding character is "=".
B64Chars ==
  << "A","B","C","D","E","F","G","H","I","J","K","L","M","N","O","P",
     "Q","R","S","T","U","V","W","X","Y","Z","a","b","c","d","e","f",
     "g","h","i","j","k","l","m","n","o","p","q","r","s","t","u","v",
     "w","x","y","z","0","1","2","3","4","5","6","7","8","9","+","/" >>

\* The decode map of the encoding: the 6-bit value of each alphabet character.
B64DecodeMap == [ch \in { B64Chars[i] : i \in 1..64 } |->
                   (CHOOSE i \in 1..64 : B64Chars[i] = ch) - 1]

InB64(ch) == ch \in DOMAIN B64DecodeMap

\* The 6-bit value of an alphabet character.
B64Val(ch) == B64DecodeMap[ch]

B64Char(v) == B64Chars[v + 1]

RECURSIVE EncodeToString(_)
\* base64.StdEncoding.EncodeToString: 3 bytes to 4 characters, the last group
\* padded with "=".
EncodeToString(src) ==
  IF src = <<>> THEN <<>>
  ELSE IF Len(src) = 1 THEN
    LET val == src[1] * 65536
    IN << B64Char(val \div 262144), B64Char((val \div 4096) % 64), "=", "=" >>
  ELSE IF Len(src) = 2 THEN
    LET val == src[1] * 65536 + src[2] * 256
    IN << B64Char(val \div 262144), B64Char((val \div 4096) % 64),
          B64Char((val \div 64) % 64), "=" >>
  ELSE
    LET val == src[1] * 65536 + src[2] * 256 + src[3]
    IN << B64Char(val \div 262144), B64Char((val \div 4096) % 64),
          B64Char((val \div 64) % 64), B64Char(val % 64) >>
       \o EncodeToString(SubSeq(src, 4, Len(src)))

\* The bytes of one quantum of 4 characters of which the first dlen are data:
\* the missing 6-bit values count as 0 and the bits beyond the last whole byte
\* are dropped without being looked at (StdEncoding is not Strict).
QuantumBytes(q, dlen) ==
  LET d(j) == IF j <= dlen THEN B64Val(q[j]) ELSE 0
      val == d(1) * 262144 + d(2) * 4096 + d(3) * 64 + d(4)
  IN SubSeq(<< val \div 65536, (val \div 256) % 256, val % 256 >>, 1, dlen - 1)

RECURSIVE DecodeString(_)
\* base64.StdEncoding.DecodeString on a string without \r or \n:
\* [bytes |-> the decoded bytes, ok |-> whether err == nil].  On an error the
\* bytes are those of the quanta before the corrupt one.
DecodeString(s) ==
  IF s = <<>> THEN [bytes |-> <<>>, ok |-> TRUE]
  ELSE IF Len(s) < 4 THEN [bytes |-> <<>>, ok |-> FALSE]
  ELSE
    LET q == SubSeq(s, 1, 4)
        last == Len(s) = 4
        dlen == IF \A j \in 1..4 : InB64(q[j]) THEN 4
                ELSE IF last /\ InB64(q[1]) /\ InB64(q[2]) /\ InB64(q[3]) /\ q[4] = "=" THEN 3
                ELSE IF last /\ InB64(q[1]) /\ InB64(q[2]) /\ q[3] = "=" /\ q[4] = "=" THEN 2
                ELSE 0
    IN IF dlen = 0 THEN [bytes |-> <<>>, ok |-> FALSE]
       ELSE IF last THEN [bytes |-> QuantumBytes(q, dlen), ok |-> TRUE]
       ELSE LET rest == DecodeString(SubSeq(s, 5, Len(s)))
            IN [bytes |-> QuantumBytes(q, 4) \o rest.bytes, ok |-> rest.ok]

\* ---------------------------------------------------------- encoding/hex
HexChars == << "0","1","2","3","4","5","6","7","8","9","a","b","c","d","e","f" >>

RECURSIVE HexEncodeToString(_)
\* hex.EncodeToString: two lowercase digits a byte.
HexEncodeToString(src) ==
  IF src = <<>> THEN <<>>
  ELSE << HexChars[(src[1] \div 16) + 1], HexChars[(src[1] % 16) + 1] >>
       \o HexEncodeToString(Tail(src))

\* ------------------------------------------------------------- hash.Hash
\* The digest algorithms behind the HashFuncs of the tables.
Algs == {"SHA256", "SHA384", "SHA512", "SHA1"}

\* hash.Hash.Size: the width of the algorithm's digest, scaled down.
Size(alg) ==
  CASE alg = "SHA256" -> 2
    [] alg = "SHA384" -> 3
    [] alg = "SHA512" -> 1
    [] alg = "SHA1" -> 5

AlgSeed(alg) ==
  CASE alg = "SHA256" -> 11
    [] alg = "SHA384" -> 83
    [] alg = "SHA512" -> 157
    [] alg = "SHA1" -> 211

RECURSIVE Mix(_, _)
Mix(data, h) ==
  IF data = <<>> THEN h ELSE Mix(Tail(data), (h * 33 + data[1] + 1) % 256)

\* The digest of data under alg: Size(alg) bytes, a function of the algorithm and
\* of all the bytes consumed, in order.
Digest(alg, data) == [k \in 1..Size(alg) |-> Mix(data, (AlgSeed(alg) + 29 * k) % 256)]

\* A HashFunc called: a fresh hash.Hash that has consumed nothing.
NewHash(alg) == [alg |-> alg, data |-> <<>>]

\* hash.Hash.Write: consumes all of b and never fails.
HashWrite(h, b) == [h EXCEPT !.data = @ \o b]

\* A Sum that finalizes: it leaves the accumulator reset.
SumResetting(h) == [digest |-> Digest(h.alg, h.data), h |-> [h EXCEPT !.data = <<>>]]

\* hash.Hash.Sum(nil): the digest of the bytes consumed so far, and the
\* accumulator after the call, which Sum leaves as it was.
Sum(h) == [digest |-> Digest(h.alg, h.data), h |-> h]

\* ------------------------------------------------------------ the tables
sha256 == << "s","h","a","2","5","6" >>
sha384 == << "s","h","a","3","8","4" >>
sha512 == << "s","h","a","5","1","2" >>
sha1 == << "s","h","a","1" >>

\* The table NewChecker passes.
DefaultHashes == (sha256 :> "SHA256") @@ (sha384 :> "SHA384") @@ (sha512 :> "SHA512")

\* The table NewCheckerWithSHA1 passes.
SHA1Hashes == (sha1 :> "SHA1") @@ DefaultHashes

\* A caller's own table, for NewCheckerForHashes.
CustomHashes == (sha1 :> "SHA1")

\* ------------------------------------------------------------ the Checker
\* A nil *Checker and a nil hash.Hash.
NilChecker == [nil |-> TRUE]
NilHash == [nil |-> TRUE, name |-> <<>>]

\* The reference to the hash.Hash registered as c.hashes[name].
Ref(name) == [nil |-> FALSE, name |-> name]

\* The checks of validateHash with the length looked at before the error.
validateDecodedLengthFirst(decoded, h, name, value) ==
  IF Len(decoded.bytes) # Size(h.alg)
  THEN [kind |-> "InvalidLength", value |-> value, name |-> name,
        should |-> Size(h.alg), was |-> Len(decoded.bytes)]
  ELSE IF ~decoded.ok THEN [kind |-> "InvalidEncoding", value |-> value]
  ELSE Nil

\* The checks of validateHash on the outcome of the decoding.
validateDecoded(decoded, h, name, value) ==
  IF ~decoded.ok THEN [kind |-> "InvalidEncoding", value |-> value]
  ELSE IF Len(decoded.bytes) # Size(h.alg)
  THEN [kind |-> "InvalidLength", value |-> value, name |-> name,
        should |-> Size(h.alg), was |-> Len(decoded.bytes)]
  ELSE Nil

\* validateHash: nil, or the error of the first check that value fails.
validateHash(h, name, value) == validateDecoded(DecodeString(value), h, name, value)

\* An addHash that takes a further value of a name unvalidated.
addHashPresentUnvalidated(c, name, value, err) ==
  [c |-> [c EXCEPT !.expected[name] = Append(@, value)], h |-> NilHash, err |-> Nil]

\* An addHash that keeps only the latest value of a name.
addHashPresentOverwrites(c, name, value, err) ==
  IF err # Nil THEN [c |-> c, h |-> NilHash, err |-> err]
  ELSE [c |-> [c EXCEPT !.expected[name] = << value >>], h |-> NilHash, err |-> Nil]

\* An addHash that hands back the hash a name already has, so that it becomes a
\* writer a second time.
addHashPresentReturnsHash(c, name, value, err) ==
  IF err # Nil THEN [c |-> c, h |-> NilHash, err |-> err]
  ELSE [c |-> [c EXCEPT !.expected[name] = Append(@, value)], h |-> Ref(name), err |-> Nil]

\* addHash for a name that has a hash already, err being validateHash's answer:
\* the value is appended to the name's expected values and no hash is returned.
addHashPresent(c, name, value, err) ==
  IF err # Nil THEN [c |-> c, h |-> NilHash, err |-> err]
  ELSE [c |-> [c EXCEPT !.expected[name] = Append(@, value)], h |-> NilHash, err |-> Nil]

\* addHash for a name of the table seen for the first time, h being its new hash
\* and err validateHash's answer: the hash is registered and returned.
addHashNew(c, name, value, h, err) ==
  IF err # Nil THEN [c |-> c, h |-> NilHash, err |-> err]
  ELSE [c |-> [c EXCEPT !.expected = (name :> << value >>) @@ @,
                        !.hashes = (name :> h) @@ @],
        h |-> Ref(name), err |-> Nil]

\* addHash: [c |-> the Checker after the call, h |-> the hash returned (a new
\* one, or nil for a name that has one already), err |-> the error returned].
addHash(c, name, value, hashes) ==
  IF name \in DOMAIN c.hashes
  THEN addHashPresent(c, name, value, validateHash(c.hashes[name], name, value))
  ELSE IF name \notin DOMAIN hashes
  THEN [c |-> c, h |-> NilHash, err |-> [kind |-> "UnknownAlgorithm", name |-> name]]
  ELSE addHashNew(c, name, value, NewHash(hashes[name]),
                  validateHash(NewHash(hashes[name]), name, value))

RECURSIVE addFields(_, _, _, _, _)
\* The body of the loop of NewCheckerForHashes after its call of addHash, which
\* returned r: the error ends the loop, a hash returned joins the writers.
addField(fields, i, writers, hashes, r) ==
  IF r.err # Nil THEN [c |-> r.c, writers |-> writers, err |-> r.err]
  ELSE addFields(fields, i + 1, r.c,
                 IF r.h # NilHash THEN Append(writers, r.h) ELSE writers, hashes)

\* The loop of NewCheckerForHashes over strings.Fields(sri), from field i on:
\* [c, writers, err], ended by the first field that fails.
addFields(fields, i, c, writers, hashes) ==
  IF i > Len(fields) THEN [c |-> c, writers |-> writers, err |-> Nil]
  ELSE IF IndexRune(fields[i], "-") = -1
  THEN [c |-> c, writers |-> writers,
        err |-> [kind |-> "MalformedToken", field |-> fields[i]]]
  ELSE addField(fields, i, writers, hashes,
                addHash(c, SubSeq(fields[i], 1, IndexRune(fields[i], "-")),
                        SubSeq(fields[i], IndexRune(fields[i], "-") + 2, Len(fields[i])),
                        hashes))

\* What NewCheckerForHashes returns after its loop, which ended as r: nil and
\* the error, or the Checker with c.w the one writer or an io.MultiWriter over
\* the writers in the order they were added.
newCheckerResult(sri, r) ==
  IF r.err # Nil THEN [c |-> NilChecker, err |-> r.err]
  ELSE IF Len(r.writers) = 0
  THEN [c |-> NilChecker, err |-> [kind |-> "EmptyOrInvalidDescriptor", sri |-> sri]]
  ELSE [c |-> [r.c EXCEPT !.w = [multi |-> Len(r.writers) # 1, writers |-> r.writers]],
        err |-> Nil]

\* NewCheckerForHashes: [c |-> the *Checker returned, err |-> the error returned].
NewCheckerForHashes(sri, hashes) ==
  newCheckerResult(sri, addFields(Fields(sri), 1,
                                  [expected |-> <<>>, hashes |-> <<>>, w |-> <<>>],
                                  <<>>, hashes))

RECURSIVE multiWrite(_, _, _, _)
\* io.MultiWriter's Write from writer i on: each writer is written all of b, in
\* order (a hash.Hash never returns an error or a short count to stop at).
multiWrite(hashes, writers, i, b) ==
  IF i > Len(writers) THEN hashes
  ELSE multiWrite([hashes EXCEPT ![writers[i].name] = HashWrite(@, b)], writers, i + 1, b)

\* A Write that reaches only the first hash added.
WriteFirstOnly(c, b) ==
  [c |-> [c EXCEPT !.hashes[c.w.writers[1].name] = HashWrite(@, b)],
   n |-> Len(b), err |-> Nil]

\* Checker.Write: c.w.Write(b), on the one hash or on the io.MultiWriter:
\* [c |-> the Checker after the call, n, err |-> what is returned].
Write(c, b) ==
  IF ~c.w.multi
  THEN [c |-> [c EXCEPT !.hashes[c.w.writers[1].name] = HashWrite(@, b)],
        n |-> Len(b), err |-> Nil]
  ELSE [c |-> [c EXCEPT !.hashes = multiWrite(@, c.w.writers, 1, b)],
        n |-> Len(b), err |-> Nil]

\* A contains that looks at the first straw only.
containsFirst(haystack, needle) == haystack # <<>> /\ haystack[1] = needle

\* contains
contains(haystack, needle) == \E i \in 1..Len(haystack) : haystack[i] = needle

\* describeExpected
describeExpected(expected) ==
  IF Len(expected) = 1 THEN expected[1]
  ELSE << "o","n","e"," ","o","f"," ","[" >> \o Join(expected, << ",", " " >>) \o << "]" >>

\* A toHex that hex-encodes each value from its second decoded byte on.
toHexDropsByte(expected) ==
  [i \in 1..Len(expected) |-> HexEncodeToString(Tail(DecodeString(expected[i]).bytes))]

\* toHex: each base64 value decoded (its error dropped) and hex-encoded.
toHex(expected) ==
  [i \in 1..Len(expected) |-> HexEncodeToString(DecodeString(expected[i]).bytes)]

\* The orders in which a range over a map with these keys may visit them.
RangeOrders(keys) ==
  { o \in [1..Cardinality(keys) -> keys] :
      \A i, j \in 1..Cardinality(keys) : i # j => o[i] # o[j] }

\* The body of the loop of Check for one name, s being what hash.Sum(nil)
\* gave and value its base64 text: the messages, with one more when value is not
\* among the name's expected values.  A message is the arguments of its Sprintf.
checkName(c, name, s, value, msgs) ==
  IF ~contains(c.expected[name], value)
  THEN Append(msgs, [name |-> name, value |-> value,
                     expected |-> describeExpected(c.expected[name]),
                     hexValue |-> HexEncodeToString(s.digest),
                     expectedHex |-> describeExpected(toHex(c.expected[name]))])
  ELSE msgs

RECURSIVE checkLoopFirstOnly(_, _, _, _)
\* A loop of Check that ends at the first name that mismatches.
checkLoopFirstOnly(c, order, i, msgs) ==
  IF i > Len(order) \/ msgs # <<>> THEN [c |-> c, msgs |-> msgs]
  ELSE checkLoopFirstOnly([c EXCEPT !.hashes[order[i]] = Sum(@).h], order, i + 1,
                          checkName(c, order[i], Sum(c.hashes[order[i]]),
                                    EncodeToString(Sum(c.hashes[order[i]]).digest), msgs))

RECURSIVE checkLoop(_, _, _, _)
\* The loop of Check, a range over c.hashes that visits the names in `order`,
\* from the i-th on: [c |-> the Checker after it, msgs].
checkLoop(c, order, i, msgs) ==
  IF i > Len(order) THEN [c |-> c, msgs |-> msgs]
  ELSE checkLoop([c EXCEPT !.hashes[order[i]] = Sum(@).h], order, i + 1,
                 checkName(c, order[i], Sum(c.hashes[order[i]]),
                           EncodeToString(Sum(c.hashes[order[i]]).digest), msgs))

\* What Check returns after its loop, which ended as r.
checkResult(r) ==
  [c |-> r.c,
   err |-> IF Len(r.msgs) # 0
           THEN [kind |-> "VerificationFailed", msgs |-> r.msgs]
           ELSE Nil]

\* Checker.Check when the range visits the names in `order`: [c, err], err the
\* messages joined in the order they were appended, or nil when there are none.
Check(c, order) == checkResult(checkLoop(c, order, 1, <<>>))

\* Checker.Expected: c.expected[name], nil (the empty slice) for a name not in it.
Expected(c, name) == IF name \in DOMAIN c.expected THEN c.expected[name] ELSE <<>>

\* Checker.ExpectedHex: the hex form of Expected(name).
ExpectedHex(c, name) == toHex(Expected(c, name))

\* ------------------------------------------------------------- the inputs
\* The bytes of the content written.
Byte == {0, 1}

\* The arguments of one Write: the byte strings of up to MaxData bytes.
Chunks == UNION { [1..n -> Byte] : n \in 0..MaxData }

\* The expected value that matches the content <<1>>, and one that matches <<0, 1>>.
Good(alg) == EncodeToString(Digest(alg, << 1 >>))
Other(alg) == EncodeToString(Digest(alg, << 0, 1 >>))

\* Another base64 text of the same bytes as v, a value of the form xxx=: the two
\* bits of its last character that belong to no byte are set.
NonCanonical(v) == [v EXCEPT ![3] = B64Char(B64Val(@) + 1)]

Token(name, value) == [name |-> name, value |-> value, dash |-> TRUE]

\* The tokens descriptors are made of: right and wrong values of a hash, a value
\* of the wrong length, values that are not base64 (one short of padding, one
\* with a second "-") and a token without "-".
Pool ==
  { Token(sha256, Good("SHA256")),
    Token(sha256, Other("SHA256")),
    Token(sha256, NonCanonical(Good("SHA256"))),
    Token(sha256, Good("SHA384")),
    Token(sha256, << "w","i","b" >>),
    Token(sha512, Good("SHA512")),
    Token(sha512, << "-","A","=","=" >>),
    Token(sha1, Good("SHA1")),
    [name |-> << "w","i","b" >>, value |-> <<>>, dash |-> FALSE] }

\* The text of a token.
Text(t) == IF t.dash THEN t.name \o << "-" >> \o t.value ELSE t.name

\* The descriptor string of the tokens: on one line with single spaces, or one
\* token a line with the lines indented, as a raw string literal of the tests.
Render(ts, style) ==
  LET texts == [i \in 1..Len(ts) |-> Text(ts[i])]
  IN IF style = "line" THEN Join(texts, << " " >>)
     ELSE << "\n" >> \o Join(texts, << "\n", "\t" >>) \o << "\n" >>

\* The two ways the tests write a descriptor.
Styles == {"line", "lines"}

\* The descriptor strings: up to MaxTokens tokens of the pool.
Descriptors == UNION { [1..n -> Pool] : n \in 0..MaxTokens }

\* --------------------------------------------------------------- the state
VARIABLES
  toks,     \* the tokens of the descriptor string the constructor was passed
  hashes,   \* the table of HashFuncs the constructor was passed
  pc,       \* "new", then "ready" (a Checker was returned) or "failed"
  c,        \* the Checker
  ret,      \* what the last call returned
  written   \* all the bytes passed to Write, in order

vars == << toks, hashes, pc, c, ret, written >>

Init ==
  /\ toks = <<>>
  /\ hashes = <<>>
  /\ pc = "new"
  /\ c = NilChecker
  /\ ret = [op |-> "none"]
  /\ written = <<>>

\* The caller's state after NewCheckerForHashes returned r for the descriptor of
\* the tokens ts and the table.
Constructed(ts, table, r) ==
  /\ toks' = ts
  /\ hashes' = table
  /\ c' = r.c
  /\ ret' = [op |-> "New", err |-> r.err]
  /\ pc' = IF r.err = Nil THEN "ready" ELSE "failed"
  /\ UNCHANGED written

\* A call of NewChecker(sri).
NewChecker ==
  /\ pc = "new"
  /\ \E ts \in Descriptors : \E style \in Styles :
       Constructed(ts, DefaultHashes, NewCheckerForHashes(Render(ts, style), DefaultHashes))

\* A call of NewCheckerWithSHA1(sri).
NewCheckerWithSHA1 ==
  /\ pc = "new"
  /\ \E ts \in Descriptors : \E style \in Styles :
       Constructed(ts, SHA1Hashes, NewCheckerForHashes(Render(ts, style), SHA1Hashes))

\* A call of NewCheckerForHashes(sri, hashes) with a table of the caller's.
NewCheckerForCustomHashes ==
  /\ pc = "new"
  /\ \E ts \in Descriptors : \E style \in Styles :
       Constructed(ts, CustomHashes, NewCheckerForHashes(Render(ts, style), CustomHashes))

\* The caller's state after c.Write(b) returned r.
Wrote(b, r) ==
  /\ c' = r.c
  /\ ret' = [op |-> "Write", n |-> r.n, err |-> r.err]
  /\ written' = written \o b
  /\ UNCHANGED << toks, hashes, pc >>

\* A call of c.Write(b).
DoWrite ==
  /\ pc = "ready"
  /\ \E b \in Chunks :
       /\ Len(written) + Len(b) <= MaxData
       /\ Wrote(b, Write(c, b))

\* The caller's state after c.Check() returned r.
Checked(r) ==
  /\ c' = r.c
  /\ ret' = [op |-> "Check", err |-> r.err]
  /\ UNCHANGED << toks, hashes, pc, written >>

\* A call of c.Check(); the range over c.hashes visits its names in any order.
DoCheck ==
  /\ pc = "ready"
  /\ \E order \in RangeOrders(DOMAIN c.hashes) : Checked(Check(c, order))

Next ==
  \/ NewChecker
  \/ NewCheckerWithSHA1
  \/ NewCheckerForCustomHashes
  \/ DoWrite
  \/ DoCheck

Spec == Init /\ [][Next]_vars

\* ========================================================= the properties
\* The properties are stated about what the caller did: the tokens of the
\* descriptor passed, the table passed, and the bytes written.

\* The algorithm names the descriptor's tokens reference.
TokNames == { toks[i].name : i \in { j \in 1..Len(toks) : toks[j].dash } }

RECURSIVE ValuesFrom(_, _)
\* The values of the tokens from the i-th on whose algorithm is name, in order.
ValuesFrom(name, i) ==
  IF i > Len(toks) THEN <<>>
  ELSE IF toks[i].dash /\ toks[i].name = name
       THEN << toks[i].value >> \o ValuesFrom(name, i + 1)
       ELSE ValuesFrom(name, i + 1)

\* The names asked of the lookups: those of the tables and one of no table.
LookupNames == { sha256, sha384, sha512, sha1, << "m","d","5" >> }

\* The base64 text of the digest of everything in `data` under the algorithm the
\* table gives name.
TrueValue(name, data) == EncodeToString(Digest(hashes[name], data))

\* The names none of whose values is the digest of `data`.
Mismatching(data) ==
  { name \in TokNames :
      LET value == TrueValue(name, data)
      IN ~\E i \in 1..Len(toks) : toks[i].name = name /\ toks[i].value = value }

\* The first check a token fails against a table, in the order separator,
\* algorithm, encoding, length; nil when it passes them all.
TokenError(t, table) ==
  LET decoded == DecodeString(t.value)
  IN IF ~t.dash THEN [kind |-> "MalformedToken", field |-> Text(t)]
     ELSE IF t.name \notin DOMAIN table THEN [kind |-> "UnknownAlgorithm", name |-> t.name]
     ELSE IF ~decoded.ok THEN [kind |-> "InvalidEncoding", value |-> t.value]
     ELSE IF Len(decoded.bytes) # Size(table[t.name])
     THEN [kind |-> "InvalidLength", value |-> t.value, name |-> t.name,
           should |-> Size(table[t.name]), was |-> Len(decoded.bytes)]
     ELSE Nil

\* The positions of the tokens that fail a check.
Failing == { i \in 1..Len(toks) : TokenError(toks[i], hashes) # Nil }

FirstFailing == LET failing == Failing IN CHOOSE i \in failing : \A j \in failing : i <= j

\* The errors the descriptor may be refused with, one for each way of writing
\* it; nil alone when it is to be accepted.
ParseErrors ==
  IF Len(toks) = 0
  THEN { [kind |-> "EmptyOrInvalidDescriptor", sri |-> Render(toks, style)] : style \in Styles }
  ELSE IF \E i \in 1..Len(toks) : TokenError(toks[i], hashes) # Nil
  THEN { TokenError(toks[FirstFailing], hashes) }
  ELSE { Nil }

HexVal(ch) == (CHOOSE i \in 1..16 : HexChars[i] = ch) - 1

\* The bytes a string of lowercase hex digits stands for.
HexDecode(s) == [k \in 1..(Len(s) \div 2) |-> 16 * HexVal(s[2 * k - 1]) + HexVal(s[2 * k])]

IsLowerHex(s) ==
  /\ Len(s) % 2 = 0
  /\ \A k \in 1..Len(s) : \E i \in 1..16 : HexChars[i] = s[k]

\* Whether the value of token t decodes to as many bytes as alg's digest has.
DecodesToSize(t, alg) ==
  LET decoded == DecodeString(t.value)
  IN decoded.ok /\ Len(decoded.bytes) = Size(alg)

\* C1: the last Check returned nil if and only if every algorithm the descriptor
\* names has, among its values, the base64 text of the digest of all the bytes
\* written: any one value of an algorithm is enough, every algorithm is needed.
C1_CheckIffEveryAlgorithmMatches ==
  (pc = "ready" /\ ret.op = "Check") => ((ret.err = Nil) <=> (Mismatching(written) = {}))

\* A Check that succeeded on two algorithms, one of them on its second value.
C1_Witness ==
  /\ pc = "ready" /\ ret.op = "Check" /\ ret.err = Nil
  /\ Cardinality(TokNames) = 2
  /\ \E i \in 1..Len(toks) :
       /\ toks[i].value # TrueValue(toks[i].name, written)
       /\ \E j \in (i + 1)..Len(toks) :
            toks[j].name = toks[i].name /\ toks[j].value = TrueValue(toks[j].name, written)

\* C2: the error of a failed Check holds one message for each algorithm none of
\* whose values is the digest of the bytes written, and no other message.
C2_CheckReportsEveryMismatch ==
  (pc = "ready" /\ ret.op = "Check" /\ ret.err # Nil) =>
    /\ ret.err.kind = "VerificationFailed"
    /\ LET mismatching == Mismatching(written)
       IN /\ { ret.err.msgs[i].name : i \in 1..Len(ret.err.msgs) } = mismatching
          /\ Len(ret.err.msgs) = Cardinality(mismatching)

\* A failed Check with two algorithms mismatching and a third matching.
C2_Witness ==
  /\ pc = "ready" /\ ret.op = "Check" /\ ret.err # Nil
  /\ Cardinality(Mismatching(written)) = 2
  /\ Cardinality(TokNames) = 3

\* C3: the constructor returns either a Checker and no error or no Checker and an
\* error: for a descriptor without tokens EmptyOrInvalidDescriptor, else the
\* error of the first check (separator, algorithm, encoding, length) failed by
\* the first token that fails one, else a Checker.
C3_ParseReturnsFirstError ==
  LET errors == ParseErrors
  IN /\ pc = "failed" =>
          /\ Nil \notin errors
          /\ ret.op = "New" /\ ret.err \in errors
          /\ c = NilChecker
     /\ pc = "ready" =>
          /\ errors = { Nil }
          /\ c # NilChecker
          /\ ret.op = "New" => ret.err = Nil

\* A descriptor refused for the unknown algorithm of a token that comes after a
\* good one and whose value is not base64 either.
C3_Witness ==
  /\ pc = "failed" /\ ret.err.kind = "UnknownAlgorithm"
  /\ FirstFailing > 1
  /\ ~DecodeString(toks[FirstFailing].value).ok

\* C4: a value is validated at every occurrence of its algorithm: a descriptor
\* with a later value of an algorithm that does not decode to the algorithm's
\* digest size is refused, whatever came before; and an accepted descriptor has
\* one writer for each algorithm named, however often it is named.
C4_EveryOccurrenceValidated ==
  /\ (pc # "new" /\ \E i \in 1..Len(toks) : \E j \in (i + 1)..Len(toks) :
        /\ toks[i].dash /\ toks[j].dash /\ toks[j].name = toks[i].name
        /\ toks[j].name \in DOMAIN hashes
        /\ ~DecodesToSize(toks[j], hashes[toks[j].name]))
     => pc = "failed"
  /\ pc = "ready" =>
       /\ \A i \in 1..Len(toks) : DecodesToSize(toks[i], c.hashes[toks[i].name].alg)
       /\ Len(c.w.writers) = Cardinality(TokNames)

\* A descriptor refused for the length of the second value of an algorithm whose
\* first value was good.
C4_Witness ==
  /\ pc = "failed" /\ ret.err.kind = "InvalidLength"
  /\ FirstFailing > 1
  /\ \E i \in 1..(FirstFailing - 1) : toks[i].name = toks[FirstFailing].name

\* C5: Expected(name) is the values of the tokens of that algorithm, in the
\* order of the descriptor, duplicates kept, and empty for a name of no token.
C5_ExpectedInDescriptorOrder ==
  pc = "ready" => \A name \in LookupNames : Expected(c, name) = ValuesFrom(name, 1)

\* An algorithm with two different values around a token of another algorithm.
C5_Witness ==
  /\ pc = "ready" /\ Len(toks) = 3
  /\ toks[1].name = toks[3].name /\ toks[1].name # toks[2].name
  /\ toks[1].value # toks[3].value
  /\ Len(Expected(c, toks[1].name)) = 2
  /\ \E name \in LookupNames : Expected(c, name) = <<>>

C7_WriteReachesEveryHash ==
  [][ pc' = "ready" =>
        /\ \A name \in DOMAIN c'.hashes : c'.hashes[name].data = written'
        /\ ret'.op = "Write" =>
             (ret'.n = Len(written') - Len(written) /\ ret'.err = Nil) ]_vars

\* A second Write, of one byte, to a Checker of two hashes.
C7_Witness ==
  /\ pc = "ready" /\ ret.op = "Write" /\ ret.n = 1 /\ Len(written) = 2
  /\ c.w.multi
  /\ \A name \in DOMAIN c.hashes : c.hashes[name].data = written

\* C8: whatever was written and checked, the expected values and the hashes of a
\* Checker are keyed by the same names, every name has at least one expected
\* value, and every hash is a writer exactly once.
C8_MapsCoIndexed ==
  pc = "ready" =>
    /\ DOMAIN c.expected = DOMAIN c.hashes
    /\ DOMAIN c.hashes = TokNames
    /\ \A name \in DOMAIN c.expected : Len(c.expected[name]) >= 1
    /\ Len(c.w.writers) = Cardinality(DOMAIN c.hashes)
    /\ { c.w.writers[i].name : i \in 1..Len(c.w.writers) } = DOMAIN c.hashes
    /\ c.w.multi <=> Len(c.w.writers) > 1

\* A Checker of two algorithms, one named by two tokens, written to and checked.
C8_Witness ==
  /\ pc = "ready" /\ ret.op = "Check" /\ written # <<>>
  /\ Len(toks) = 3 /\ Cardinality(DOMAIN c.hashes) = 2

\* C9: in whatever order Check's range visits the hashes, it returns the same
\* error, with the same messages in the same order.
C9_CheckMessageDeterministic ==
  pc = "ready" =>
    Cardinality({ Check(c, order).err : order \in RangeOrders(DOMAIN c.hashes) }) = 1

\* C10: a Check changes nothing of the Checker; a Check right after a Check
\* succeeds or fails as that one did; and a Check after any writes and checks
\* is decided by the digest of all the bytes written.
C10_CheckLeavesCheckerUnchanged ==
  [][ (pc = "ready" /\ ret'.op = "Check") =>
        /\ c' = c
        /\ written' = written
        /\ ret.op = "Check" => ((ret'.err = Nil) <=> (ret.err = Nil))
        /\ (ret'.err = Nil) <=> (Mismatching(written') = {}) ]_vars

\* A Check that succeeded after two bytes were written, the hashes of the
\* Checker still holding both.
C10_Witness ==
  /\ pc = "ready" /\ ret.op = "Check" /\ ret.err = Nil /\ Len(written) = 2
  /\ \A name \in DOMAIN c.hashes : c.hashes[name].data = written

=============================================================================
